---- MODULE Spec2Model ----
(***************************************************************************)
(* Model of dnase_atac_related/allele_specific_dnase.py: the batch         *)
(* pipeline that reads SNP sites, pools filtered reads per site, counts    *)
(* alleles, runs binomial tests, builds the FDR pool, sorts and prints.    *)
(*                                                                         *)
(* Python strings are TLA+ strings (\o is +, Len is len).  A float is an   *)
(* exact fraction <<numerator, denominator>> in lowest terms; str(float)   *)
(* renders it as "numerator/denominator".  A Python dict is a sequence of  *)
(* entries in insertion order, the order in which CPython iterates it.     *)
(* An uncaught exception ends the run: pc = "aborted" and error names it.  *)
(***************************************************************************)
EXTENDS Integers, Sequences, FiniteSets, TLC

\* ------------------------------------------------------------------------
\* Bounds of the model
\* ------------------------------------------------------------------------
MaxSnpLines == 3    \* lines of the SNP file in the input-stage specification
MaxSites == 2       \* lines of the SNP file in the multi-site specification
MaxFetch == 2       \* reads one alignment file returns for one site
MaxMinReads == 2    \* largest configured --min_reads

\* ------------------------------------------------------------------------
\* Configuration (argparse defaults)
\* ------------------------------------------------------------------------
MAX_MISSMATCHES_PER_READ == 2
MIN_MAPPING_QUAL_AT_SNP == 0
SNP_FORMAT == "bed"
ref_col == 4
alt_col == 5

\* ------------------------------------------------------------------------
\* Numbers and strings
\* ------------------------------------------------------------------------
Digits == <<"0", "1", "2", "3", "4", "5", "6", "7", "8", "9">>

DigitVal(c) == (CHOOSE d \in 1..10 : Digits[d] = c) - 1

\* int(s) for a string of decimal digits
RECURSIVE int(_)
int(s) == IF Len(s) = 0 THEN 0
          ELSE 10 * int(SubSeq(s, 1, Len(s) - 1)) + DigitVal(SubSeq(s, Len(s), Len(s)))

RECURSIVE Pow2(_)
Pow2(n) == IF n = 0 THEN 1 ELSE 2 * Pow2(n - 1)

\* a | b on non-negative integers
RECURSIVE BitOr(_, _)
BitOr(a, b) == IF a = 0 THEN b
               ELSE IF b = 0 THEN a
               ELSE (IF a % 2 = 1 \/ b % 2 = 1 THEN 1 ELSE 0) + 2 * BitOr(a \div 2, b \div 2)

RECURSIVE Gcd(_, _)
Gcd(a, b) == IF b = 0 THEN a ELSE Gcd(b, a % b)

\* the float n/d
Float(n, d) == LET g == Gcd(n, d) IN <<n \div g, d \div g>>

FloatLess(p, q) == p[1] * q[2] < q[1] * p[2]

\* str(x) for a float
FloatStr(p) == ToString(p[1]) \o "/" \o ToString(p[2])

\* s contains sub
Contains(s, sub) == \E i \in 1..(Len(s) - Len(sub) + 1) : SubSeq(s, i, i + Len(sub) - 1) = sub

\* code points of the characters of site ids
Ord(c) == IF c = "s" THEN 115 ELSE 48 + DigitVal(c)

\* a < b on strings (lexicographic by code point)
RECURSIVE StrLess(_, _)
StrLess(a, b) ==
    IF Len(b) = 0 THEN FALSE
    ELSE IF Len(a) = 0 THEN TRUE
    ELSE LET x == Ord(SubSeq(a, 1, 1))
             y == Ord(SubSeq(b, 1, 1))
         IN IF x # y THEN x < y
            ELSE StrLess(SubSeq(a, 2, Len(a)), SubSeq(b, 2, Len(b)))

\* all sequences over S of length at most n
RECURSIVE SeqsUpTo(_, _)
SeqsUpTo(S, n) == IF n = 0 THEN {<<>>}
                  ELSE LET T == SeqsUpTo(S, n - 1)
                       IN T \cup {Append(t, x) : t \in {u \in T : Len(u) = n - 1}, x \in S}

\* ------------------------------------------------------------------------
\* State
\* ------------------------------------------------------------------------
VARIABLES
    sfh,                \* lines of the SNP file not yet read, each already split
    bam,                \* args.bam: the alignment files
    fetchable,          \* which read lists an alignment file can return for a site
    MIN_READS_AT_SNP,   \* args.min_reads
    pc,                 \* stage of the script
    bam_i,              \* index into args.bam of the file being read (stage 2)
    key_i,              \* index of the next key of the running loop over snp_dict
    snp_keys,           \* keys of snp_dict in insertion order
    snp_dict,           \* key -> site record
    indel_count,
    not_queried_count,
    valid_keys,         \* keys of valid_tests_dict in insertion order
    valid_tests_dict,   \* key -> [pvalue, qvalue]
    sorted_keys,
    total_count,
    queried_count,
    stdout,             \* printed lines
    error               \* "" or the exception that ended the run

vars == <<sfh, bam, fetchable, MIN_READS_AT_SNP, pc, bam_i, key_i, snp_keys, snp_dict,
          indel_count, not_queried_count, valid_keys, valid_tests_dict, sorted_keys,
          total_count, queried_count, stdout, error>>

\* ------------------------------------------------------------------------
\* Inputs
\* ------------------------------------------------------------------------
SiteIds == {"s1", "s2", "s3"}

\* a bed line: chr start end id ref alt
BedLine(id, ref, alt) == <<"chr1", "5", "6", id, ref, alt>>

\* lines with single-base alleles
SnvLines == {BedLine(id, "A", "C") : id \in SiteIds}

\* lines of one site that stage 1 stores: a SNV, and two lines with longer
\* alleles that pass the indel check
StoredLines == {BedLine("s1", "A", "C"), BedLine("s1", "AT", "C"), BedLine("s1", "ATG", "CGT")}

\* lines with alleles of length 1 to 3, and a header line
InputLines == {BedLine(id, ref, alt) : id \in {"s1", "s2"}, ref \in {"A", "AT", "ATG"},
                                       alt \in {"C", "CG", "CGT"}}
              \cup {<<"#chr", "start", "end", "id", "ref", "alt">>}

\* reads over position 5
GoodRead(b) == [reference_start |-> 4, query_sequence |-> "N" \o b, NM |-> 2,
                query_alignment_qualities |-> <<30, 0>>]

\* a read with too many mismatches
MismatchedRead == [reference_start |-> 5, query_sequence |-> "C", NM |-> 3,
                   query_alignment_qualities |-> <<30>>]

Bases == {"A", "C", "G", "T"}

Reads == {GoodRead(b) : b \in Bases} \cup {MismatchedRead}

RECURSIVE Repeat(_, _)
Repeat(x, n) == IF n = 0 THEN <<>> ELSE <<x>> \o Repeat(x, n - 1)

\* the pools of a multi-site run: per site one alignment file returns no read,
\* reference reads followed by alternate reads, or a third base before them
SitePools == {Repeat(GoodRead("G"), g) \o Repeat(GoodRead("A"), a) \o Repeat(GoodRead("C"), c) :
                g \in 0..1, a \in {0, 1, 3}, c \in 0..1}

\* every read list of up to MaxFetch reads
ReadLists == SeqsUpTo(Reads, MaxFetch)

\* what bamfile.fetch can return for a site
FetchResults(f) == IF f = "reads" THEN ReadLists ELSE SitePools

\* ------------------------------------------------------------------------
\* 1) SNP input
\* ------------------------------------------------------------------------
\* len(line_split[ref_col]) != 1 | len(line_split[alt_col]) != 1
\* Python parses it as the chained comparison  len(ref) != (1 | len(alt)) != 1
IsIndelLine(line_split) ==
    LET m == BitOr(1, Len(line_split[alt_col + 1]))
    IN Len(line_split[ref_col + 1]) # m /\ m # 1

\* the record stored for a line, per format
SnpRecord(line_split) ==
    IF SNP_FORMAT = "bed"
    THEN [chr |-> line_split[1], pos |-> int(line_split[2]), id |-> line_split[4],
          ref |-> line_split[ref_col + 1], alt |-> line_split[alt_col + 1]]
    ELSE [chr |-> "chr" \o line_split[1], pos |-> int(line_split[2]) - 1, id |-> line_split[3],
          ref |-> line_split[ref_col + 1], alt |-> line_split[alt_col + 1]]

\* fields a site record gets in later stages, absent at this point
NewSite(rec) ==
    [chr |-> rec.chr, pos |-> rec.pos, id |-> rec.id, ref |-> rec.ref, alt |-> rec.alt,
     fields |-> {}, reads |-> <<>>, flag_sufficient_reads |-> FALSE,
     report_comment |-> "", report_ref |-> "", report_alt |-> "", report_other |-> "",
     allelic_dict |-> <<>>]

\* d[k] = v on an insertion-ordered dict
DictSet(d, k, v) == [x \in (DOMAIN d) \cup {k} |-> IF x = k THEN v ELSE d[x]]

KeysSet(keys, k) == IF \E i \in 1..Len(keys) : keys[i] = k THEN keys ELSE Append(keys, k)

\* one iteration of "for line in sfh"
ReadSnpLine ==
    /\ pc = "stage1"
    /\ Len(sfh) > 0
    /\ LET line_split == Head(sfh)
       IN IF SubSeq(line_split[1], 1, 1) = "#"
          THEN UNCHANGED <<snp_keys, snp_dict, indel_count>>
          ELSE IF IsIndelLine(line_split)
          THEN /\ indel_count' = indel_count + 1
               /\ UNCHANGED <<snp_keys, snp_dict>>
          ELSE /\ snp_dict' = DictSet(snp_dict, line_split[4], NewSite(SnpRecord(line_split)))
               /\ snp_keys' = KeysSet(snp_keys, line_split[4])
               /\ UNCHANGED indel_count
    /\ sfh' = Tail(sfh)
    /\ UNCHANGED <<bam, fetchable, MIN_READS_AT_SNP, pc, bam_i, key_i, not_queried_count,
                   valid_keys, valid_tests_dict, sorted_keys,
                   total_count, queried_count, stdout, error>>

\* end of the SNP file: the loop over args.bam starts
CloseSnpFile ==
    /\ pc = "stage1"
    /\ Len(sfh) = 0
    /\ pc' = "stage2"
    /\ bam_i' = 1
    /\ key_i' = 1
    /\ UNCHANGED <<sfh, bam, fetchable, MIN_READS_AT_SNP, snp_keys, snp_dict, indel_count,
                   not_queried_count, valid_keys, valid_tests_dict, sorted_keys,
                   total_count, queried_count, stdout, error>>

\* ------------------------------------------------------------------------
\* 2) Extract and filter reads over SNP positions
\* ------------------------------------------------------------------------
\* reads passing Filter.1 (NM tag) and Filter.2 (quality at the SNP position)
RECURSIVE FilterReads(_, _)
FilterReads(fetched, pos) ==
    IF Len(fetched) = 0 THEN <<>>
    ELSE LET read == Head(fetched)
             temp_pos == pos - read.reference_start
             rest == FilterReads(Tail(fetched), pos)
         IN IF read.NM > MAX_MISSMATCHES_PER_READ THEN rest
            ELSE IF read.query_alignment_qualities[temp_pos + 1] < MIN_MAPPING_QUAL_AT_SNP
            THEN rest
            ELSE <<read>> \o rest

\* snp_dict[key]['reads'] after one alignment file has been fetched for key
PoolReads(site, fetched) ==
    LET temp_reads == FilterReads(fetched, site.pos)
    IN IF "reads" \in site.fields
       THEN [site EXCEPT !.reads = site.reads \o temp_reads]
       ELSE [site EXCEPT !.reads = temp_reads, !.fields = site.fields \cup {"reads"}]

\* one iteration of "for key in snp_dict" for the open alignment file
FetchReads ==
    /\ pc = "stage2"
    /\ bam_i <= Len(bam)
    /\ key_i <= Len(snp_keys)
    /\ \E fetched \in FetchResults(fetchable) :
          snp_dict' = [snp_dict EXCEPT ![snp_keys[key_i]] = PoolReads(@, fetched)]
    /\ key_i' = key_i + 1
    /\ UNCHANGED <<sfh, bam, fetchable, MIN_READS_AT_SNP, pc, bam_i, snp_keys, indel_count,
                   not_queried_count, valid_keys, valid_tests_dict, sorted_keys,
                   total_count, queried_count, stdout, error>>

\* bamfile.close() and the next alignment file
CloseBam ==
    /\ pc = "stage2"
    /\ bam_i <= Len(bam)
    /\ key_i > Len(snp_keys)
    /\ bam_i' = bam_i + 1
    /\ key_i' = 1
    /\ UNCHANGED <<sfh, bam, fetchable, MIN_READS_AT_SNP, pc, snp_keys, snp_dict, indel_count,
                   not_queried_count, valid_keys, valid_tests_dict, sorted_keys,
                   total_count, queried_count, stdout, error>>

\* Filter.3 for one site
FlagSufficientReads(site, min_reads) ==
    IF Len(site.reads) < min_reads
    THEN [site EXCEPT !.flag_sufficient_reads = FALSE, !.reads = <<>>,
                      !.fields = site.fields \cup {"flag_sufficient_reads"}]
    ELSE [site EXCEPT !.flag_sufficient_reads = TRUE,
                      !.fields = site.fields \cup {"flag_sufficient_reads"}]

\* Filter.3) the loop over all sites once all alignment files are read
CheckMinReads ==
    /\ pc = "stage2"
    /\ bam_i > Len(bam)
    /\ snp_dict' = [k \in DOMAIN snp_dict |-> FlagSufficientReads(snp_dict[k], MIN_READS_AT_SNP)]
    /\ pc' = "stage3"
    /\ key_i' = 1
    /\ UNCHANGED <<sfh, bam, fetchable, MIN_READS_AT_SNP, bam_i, snp_keys, indel_count,
                   not_queried_count, valid_keys, valid_tests_dict, sorted_keys,
                   total_count, queried_count, stdout, error>>

\* ------------------------------------------------------------------------
\* 3) Split allelic reads, 5) test for allelic imbalance
\* ------------------------------------------------------------------------
\* allelic_dict is a sequence of [base, count, pvalue]; pvalue = <<>> while the
\* entry has no 'pvalue' key
HasBase(d, b) == \E i \in 1..Len(d) : d[i].base = b

Entry(d, b) == d[CHOOSE i \in 1..Len(d) : d[i].base = b]

\* the base a read shows at the SNP position
BaseAtSnp(read, pos) ==
    LET pos_snp == pos - read.reference_start
    IN SubSeq(read.query_sequence, pos_snp + 1, pos_snp + 1)

\* count one base into the dict
CountBase(d, base_snp) ==
    IF HasBase(d, base_snp)
    THEN [i \in 1..Len(d) |-> IF d[i].base = base_snp
                              THEN [d[i] EXCEPT !.count = d[i].count + 1] ELSE d[i]]
    ELSE Append(d, [base |-> base_snp, count |-> 1, pvalue |-> <<>>])

\* the loop over the reads of a site
RECURSIVE CountAlleles(_, _, _)
CountAlleles(d, reads, pos) ==
    IF Len(reads) = 0 THEN d
    ELSE CountAlleles(CountBase(d, BaseAtSnp(Head(reads), pos)), Tail(reads), pos)

\* variant: the scan stops at the first base that is not the alternate base
RECURSIVE SubstituteScanFirstBase(_, _, _, _)
SubstituteScanFirstBase(d, alt, ref_allele_count, ref_allele_base) ==
    IF Len(d) = 0 THEN <<ref_allele_count, ref_allele_base>>
    ELSE IF Head(d).base # alt /\ Head(d).count > ref_allele_count
    THEN <<Head(d).count, Head(d).base>>
    ELSE SubstituteScanFirstBase(Tail(d), alt, ref_allele_count, ref_allele_base)

\* the base with most counts that is not the alternate base; a later base
\* replaces an earlier one only with a strictly larger count
RECURSIVE SubstituteScan(_, _, _, _)
SubstituteScan(d, alt, ref_allele_count, ref_allele_base) ==
    IF Len(d) = 0 THEN <<ref_allele_count, ref_allele_base>>
    ELSE IF Head(d).base # alt /\ Head(d).count > ref_allele_count
    THEN SubstituteScan(Tail(d), alt, Head(d).count, Head(d).base)
    ELSE SubstituteScan(Tail(d), alt, ref_allele_count, ref_allele_base)

RECURSIVE Choose(_, _)
Choose(n, k) == IF k = 0 \/ k = n THEN 1 ELSE Choose(n - 1, k - 1) + Choose(n - 1, k)

RECURSIVE SumUpTo(_, _)
SumUpTo(f, n) == IF n < 0 THEN 0 ELSE f[n] + SumUpTo(f, n - 1)

\* scipy.stats.binom_test(x, n) with p = 0.5, two-sided: the total probability
\* of the outcomes that are at most as likely as x
binom_test(x, n) ==
    LET w == [i \in 0..n |-> IF Choose(n, i) <= Choose(n, x) THEN Choose(n, i) ELSE 0]
    IN Float(SumUpTo(w, n), Pow2(n))

\* variant: the test of a base against its own count alone
RunTestsWithoutAnchor(d, ref_allele_base, ref_allele_count) ==
    [i \in 1..Len(d) |->
        IF d[i].base = ref_allele_base THEN d[i]
        ELSE [d[i] EXCEPT !.pvalue = binom_test(d[i].count, d[i].count)]]

\* the binomial test of every base but the anchor base
RunTests(d, ref_allele_base, ref_allele_count) ==
    [i \in 1..Len(d) |->
        IF d[i].base = ref_allele_base THEN d[i]
        ELSE [d[i] EXCEPT !.pvalue = binom_test(d[i].count, d[i].count + ref_allele_count)]]

\* report_other: the bases that are neither the anchor nor the alternate base.
\* st = [text, error]; a base without p-value raises KeyError
RECURSIVE ReportOther(_, _, _, _)
ReportOther(st, d, ref_allele_base, alt) ==
    IF Len(d) = 0 \/ st.error # "" THEN st
    ELSE LET e == Head(d)
         IN IF e.base # ref_allele_base /\ e.base # alt
            THEN IF e.pvalue = <<>>
                 THEN [st EXCEPT !.error = "KeyError"]
                 ELSE ReportOther([st EXCEPT !.text = st.text \o e.base \o ":" \o ToString(e.count)
                                                   \o ":" \o FloatStr(e.pvalue) \o ";"],
                                  Tail(d), ref_allele_base, alt)
            ELSE ReportOther(st, Tail(d), ref_allele_base, alt)

\* lines 232-245: a site without sufficient reads
InsufficientSite(site) ==
    [site EXCEPT !.report_ref = ".:.", !.report_alt = ".:.:.",
                 !.report_comment = "Insufficient_Total_Reads;", !.report_other = ".:.:.",
                 !.fields = site.fields \cup {"report"}]

\* lines 263-282: anchor resolution.  c = [site, nq, base, count, error]
ResolveAnchor(s0) ==
    LET d == s0.allelic_dict
    IN IF HasBase(d, s0.ref)
       THEN [site |-> [s0 EXCEPT !.report_ref = s0.ref \o ":" \o ToString(Entry(d, s0.ref).count)],
             nq |-> 0, base |-> s0.ref, count |-> Entry(d, s0.ref).count, error |-> ""]
       ELSE LET f == SubstituteScan(d, s0.alt, 0, s0.ref)
                ref_allele_count == f[1]
                ref_allele_base == f[2]
                report_ref == IF ref_allele_base # s0.ref
                              THEN s0.ref \o ":0" \o ";" \o ref_allele_base \o ":"
                                   \o ToString(ref_allele_count)
                              ELSE s0.ref \o ":0"
            IN [site |-> [s0 EXCEPT !.report_ref = report_ref,
                                    !.report_comment = s0.report_comment \o "No_Ref_Reads;Calc_rel_to_"
                                                       \o ref_allele_base \o ";"],
                nq |-> 0, base |-> ref_allele_base, count |-> ref_allele_count, error |-> ""]

\* variant: the guard fires on an empty dict only
NoBaseAtAll(d) == Len(d) < 1

\* line 299: only one base is present
OnlyOneBase(d) == Len(d) <= 1

\* lines 284-310: no usable anchor, the single-allele guard, or the tests
TestAlleles(c) ==
    LET s == c.site
        d == s.allelic_dict
    IN IF c.base = s.ref /\ ~HasBase(d, s.ref)
       THEN IF HasBase(d, s.alt)
            THEN [c EXCEPT !.nq = c.nq + 1,
                           !.site = [s EXCEPT !.report_alt = s.alt \o ":" \o ToString(Entry(d, s.alt).count)
                                                               \o ":.",
                                              !.report_comment = s.report_comment \o "Only_Alt_Reads;",
                                              !.report_other = ".:.:."]]
            ELSE [c EXCEPT !.nq = c.nq + 1,
                           !.site = [s EXCEPT !.report_alt = ".:.:.",
                                              !.report_comment = s.report_comment
                                                                 \o "No_Ref_nor_Alt_Reads;",
                                              !.report_other = ".:.:."]]
       ELSE IF OnlyOneBase(d)
            THEN [c EXCEPT !.nq = c.nq + 1,
                           !.site = [s EXCEPT !.report_ref = ".:.", !.report_alt = ".:.:.",
                                              !.report_comment = "Insufficient_Alleles;"]]
            ELSE [c EXCEPT !.site = [s EXCEPT !.allelic_dict = RunTests(d, c.base, c.count)]]

\* variant: the branch without alternate reads leaves report_alt as it is
ReportAltKeepsEmpty(c) ==
    LET s == c.site
        d == s.allelic_dict
    IN IF ~HasBase(d, s.alt)
       THEN [c EXCEPT !.nq = c.nq + 1,
                      !.site = [s EXCEPT !.report_comment = s.report_comment \o "No_Alt_Reads;"]]
       ELSE IF Entry(d, s.alt).pvalue = <<>>
            THEN [c EXCEPT !.error = "KeyError"]
            ELSE [c EXCEPT !.site = [s EXCEPT !.report_alt = s.alt \o ":"
                                                \o ToString(Entry(d, s.alt).count) \o ":"
                                                \o FloatStr(Entry(d, s.alt).pvalue)]]

\* lines 312-319: the report of the alternate base
ReportAlt(c) ==
    LET s == c.site
        d == s.allelic_dict
    IN IF ~HasBase(d, s.alt)
       THEN [c EXCEPT !.nq = c.nq + 1,
                      !.site = [s EXCEPT !.report_comment = s.report_comment \o "No_Alt_Reads;",
                                         !.report_alt = s.alt \o ":0:."]]
       ELSE IF Entry(d, s.alt).pvalue = <<>>
            THEN [c EXCEPT !.error = "KeyError"]
            ELSE [c EXCEPT !.site = [s EXCEPT !.report_alt = s.alt \o ":"
                                                \o ToString(Entry(d, s.alt).count) \o ":"
                                                \o FloatStr(Entry(d, s.alt).pvalue)]]

\* lines 321-327: report_other, then the reads are deleted
ReportRest(c) ==
    IF c.error # "" THEN c
    ELSE LET s == c.site
             o == ReportOther([text |-> s.report_other, error |-> ""], s.allelic_dict, c.base, s.alt)
         IN IF o.error # ""
            THEN [c EXCEPT !.error = o.error, !.site = [s EXCEPT !.report_other = o.text]]
            ELSE [c EXCEPT !.site = [s EXCEPT !.report_other = o.text, !.reads = <<>>,
                                              !.fields = s.fields \ {"reads"}]]

\* the body of the loop of stage 3 for one site (lines 230-327):
\* [site, nq, base, count, error], nq the increments of not_queried_count
Classify(site) ==
    LET init == [site EXCEPT !.report_comment = "", !.report_ref = "", !.report_alt = "",
                             !.report_other = "", !.fields = site.fields \cup {"report"}]
    IN IF init.flag_sufficient_reads = FALSE
       THEN [site |-> InsufficientSite(init), nq |-> 1, base |-> "", count |-> 0, error |-> ""]
       ELSE LET s0 == [init EXCEPT !.allelic_dict = CountAlleles(<<>>, init.reads, init.pos),
                                   !.fields = init.fields \cup {"allelic_dict"}]
            IN ReportRest(ReportAlt(TestAlleles(ResolveAnchor(s0))))

\* one iteration of the loop of stage 3
ClassifySite ==
    /\ pc = "stage3"
    /\ key_i <= Len(snp_keys)
    /\ LET key == snp_keys[key_i]
           c == Classify(snp_dict[key])
       IN /\ snp_dict' = [snp_dict EXCEPT ![key] = c.site]
          /\ not_queried_count' = not_queried_count + c.nq
          /\ error' = c.error
          /\ IF c.error # ""
             THEN pc' = "aborted" /\ UNCHANGED key_i
             ELSE pc' = pc /\ key_i' = key_i + 1
    /\ UNCHANGED <<sfh, bam, fetchable, MIN_READS_AT_SNP, bam_i, snp_keys, indel_count,
                   valid_keys, valid_tests_dict, sorted_keys, total_count, queried_count,
                   stdout>>

\* ------------------------------------------------------------------------
\* 6) FDR
\* ------------------------------------------------------------------------
\* isNumber(s): float(s) raises no ValueError
isNumber(s) == Len(s) = 2

\* variant: the condition without the test of the comment
IsValidTestAnyComment(s) ==
    /\ isNumber(Entry(s.allelic_dict, s.alt).pvalue)
    /\ Entry(s.allelic_dict, s.alt).count > 0

\* the rest of the condition of line 336, once allelic_dict[alt]['pvalue'] is read
IsValidTest(s) ==
    /\ isNumber(Entry(s.allelic_dict, s.alt).pvalue)
    /\ Entry(s.allelic_dict, s.alt).count > 0
    /\ s.report_comment = ""

\* 6.1) the loop over snp_dict.  st = [keys, dict, error]; for a site with
\* sufficient reads the condition reads allelic_dict[alt]['pvalue'] first
RECURSIVE ValidTests(_, _, _)
ValidTests(st, keys, sites) ==
    IF Len(keys) = 0 \/ st.error # "" THEN st
    ELSE LET key == Head(keys)
             s == sites[key]
             d == s.allelic_dict
         IN IF ~s.flag_sufficient_reads
            THEN ValidTests(st, Tail(keys), sites)
            ELSE IF ~HasBase(d, s.alt) \/ Entry(d, s.alt).pvalue = <<>>
            THEN [st EXCEPT !.error = "KeyError"]
            ELSE IF IsValidTest(s)
            THEN ValidTests([st EXCEPT !.keys = KeysSet(st.keys, key),
                                       !.dict = DictSet(st.dict, key,
                                                        [pvalue |-> Entry(d, s.alt).pvalue,
                                                         qvalue |-> <<>>])],
                            Tail(keys), sites)
            ELSE ValidTests(st, Tail(keys), sites)

CollectValidTests ==
    /\ pc = "stage3"
    /\ key_i > Len(snp_keys)
    /\ LET st == ValidTests([keys |-> <<>>, dict |-> <<>>, error |-> ""], snp_keys, snp_dict)
       IN /\ valid_keys' = st.keys
          /\ valid_tests_dict' = st.dict
          /\ error' = st.error
          /\ pc' = IF st.error # "" THEN "aborted" ELSE "stage6_2"
    /\ UNCHANGED <<sfh, bam, fetchable, MIN_READS_AT_SNP, bam_i, key_i, snp_keys, snp_dict,
                   indel_count, not_queried_count, sorted_keys, total_count, queried_count,
                   stdout>>

FloatMin(S) == CHOOSE x \in S : \A y \in S : ~FloatLess(y, x)

\* statsmodels multipletests(pvals, method='fdr_bh')[1] on a non-empty list:
\* q_i = min(1, min over the p_k >= p_i of p_k * m / rank(p_k))
fdr_bh(pvals) ==
    LET m == Len(pvals)
        rank(k) == Cardinality({l \in 1..m : ~FloatLess(pvals[k], pvals[l])})
        raw(k) == Float(pvals[k][1] * m, pvals[k][2] * rank(k))
    IN [i \in 1..m |->
          FloatMin({raw(k) : k \in {l \in 1..m : ~FloatLess(pvals[l], pvals[i])}} \cup {<<1, 1>>})]

\* 6.2) q-values, then the summary line.  The result of multipletests on an
\* empty list is left open: it returns an empty array or raises
PerformFDR ==
    /\ pc = "stage6_2"
    /\ LET fdr_keys == valid_keys
           fdr_pvalues == [i \in 1..Len(valid_keys) |-> valid_tests_dict[valid_keys[i]].pvalue]
       IN \E raises \in (IF Len(fdr_pvalues) = 0 THEN BOOLEAN ELSE {FALSE}) :
            IF raises
            THEN /\ pc' = "aborted"
                 /\ error' = "ZeroDivisionError"
                 /\ UNCHANGED <<valid_tests_dict, total_count, queried_count, stdout>>
            ELSE LET fdr_qvalues == fdr_bh(fdr_pvalues)
                     q(k) == fdr_qvalues[CHOOSE i \in 1..Len(fdr_keys) : fdr_keys[i] = k]
                     total == Len(snp_keys)
                     queried == total - not_queried_count
                 IN /\ valid_tests_dict' = [k \in DOMAIN valid_tests_dict |->
                                              [valid_tests_dict[k] EXCEPT !.qvalue = q(k)]]
                    /\ total_count' = total
                    /\ queried_count' = queried
                    /\ stdout' = Append(stdout, "# Total SNPs: " \o ToString(total)
                                                \o "  Queried: " \o ToString(queried)
                                                \o "  Not Queried: " \o ToString(not_queried_count))
                    /\ pc' = "stage7"
                    /\ UNCHANGED error
    /\ UNCHANGED <<sfh, bam, fetchable, MIN_READS_AT_SNP, bam_i, key_i, snp_keys, snp_dict,
                   indel_count, not_queried_count, valid_keys, sorted_keys>>

\* ------------------------------------------------------------------------
\* 7) Assemble and print output (--sortby pvalue)
\* ------------------------------------------------------------------------
\* variant: the tuples are compared by sort value only
TupleLessByValue(a, b) == FloatLess(a[1], b[1])

\* (y, x) < (y2, x2) on the zipped (sort value, key) tuples
TupleLess(a, b) ==
    \/ FloatLess(a[1], b[1])
    \/ (~FloatLess(b[1], a[1]) /\ StrLess(a[2], b[2]))

\* sorted(): insertion into a sorted list, after the elements that are not greater
RECURSIVE InsertSorted(_, _)
InsertSorted(l, t) ==
    IF Len(l) = 0 THEN <<t>>
    ELSE IF TupleLess(t, Head(l)) THEN <<t>> \o l
    ELSE <<Head(l)>> \o InsertSorted(Tail(l), t)

RECURSIVE sorted(_)
sorted(l) == IF Len(l) = 0 THEN <<>>
             ELSE InsertSorted(sorted(SubSeq(l, 1, Len(l) - 1)), l[Len(l)])

\* the sort value of a key: its p-value if it is in valid_tests_dict, else 1
SortValue(k, valid) == IF k \in DOMAIN valid THEN valid[k].pvalue ELSE <<1, 1>>

SortedByPvalue(keys, valid) ==
    LET zipped == [i \in 1..Len(keys) |-> <<SortValue(keys[i], valid), keys[i]>>]
        s == sorted(zipped)
    IN [i \in 1..Len(keys) |-> s[i][2]]

SortKeys ==
    /\ pc = "stage7"
    /\ sorted_keys' = SortedByPvalue(snp_keys, valid_tests_dict)
    /\ key_i' = 1
    /\ pc' = "print"
    /\ UNCHANGED <<sfh, bam, fetchable, MIN_READS_AT_SNP, bam_i, snp_keys, snp_dict, indel_count,
                   not_queried_count, valid_keys, valid_tests_dict, total_count, queried_count,
                   stdout, error>>

\* the output line of a site (lines 401-416)
OutputLine(s, key, valid) ==
    s.chr \o "\t" \o ToString(s.pos) \o "\t" \o ToString(s.pos + 1) \o "\t" \o s.id \o "\t"
    \o s.ref \o "\t" \o s.alt
    \o (IF key \in DOMAIN valid
        THEN "\t" \o FloatStr(valid[key].pvalue) \o "\t" \o FloatStr(valid[key].qvalue)
        ELSE "\t.\t.")
    \o "\t" \o s.report_ref \o ":" \o s.report_alt
    \o (IF s.report_other # "" THEN ":" \o s.report_other ELSE "")
    \o "\t"
    \o (IF s.report_comment = "" THEN "." ELSE s.report_comment)

\* one iteration of "for key in sorted_keys"
PrintLine ==
    /\ pc = "print"
    /\ key_i <= Len(sorted_keys)
    /\ stdout' = Append(stdout, OutputLine(snp_dict[sorted_keys[key_i]], sorted_keys[key_i],
                                           valid_tests_dict))
    /\ key_i' = key_i + 1
    /\ UNCHANGED <<sfh, bam, fetchable, MIN_READS_AT_SNP, pc, bam_i, snp_keys, snp_dict,
                   indel_count, not_queried_count, valid_keys, valid_tests_dict, sorted_keys,
                   total_count, queried_count, error>>

\* the script ends
Exit ==
    /\ pc = "print"
    /\ key_i > Len(sorted_keys)
    /\ pc' = "done"
    /\ UNCHANGED <<sfh, bam, fetchable, MIN_READS_AT_SNP, bam_i, key_i, snp_keys, snp_dict,
                   indel_count, not_queried_count, valid_keys, valid_tests_dict, sorted_keys,
                   total_count, queried_count, stdout, error>>

\* ------------------------------------------------------------------------
\* Specifications
\* ------------------------------------------------------------------------
InitState ==
    /\ pc = "stage1"
    /\ bam_i = 0
    /\ key_i = 0
    /\ snp_keys = <<>>
    /\ snp_dict = <<>>
    /\ indel_count = 0
    /\ not_queried_count = 0
    /\ valid_keys = <<>>
    /\ valid_tests_dict = <<>>
    /\ sorted_keys = <<>>
    /\ total_count = 0
    /\ queried_count = 0
    /\ stdout = <<>>
    /\ error = ""

\* the input stage alone, on files with alleles of any length
InitInput ==
    /\ sfh \in SeqsUpTo(InputLines, MaxSnpLines)
    /\ bam = <<"a.bam">>
    /\ fetchable = "reads"
    /\ MIN_READS_AT_SNP = 0
    /\ InitState

NextInput == ReadSnpLine \/ CloseSnpFile

SpecInput == InitInput /\ [][NextInput]_vars

\* one site, two alignment files, every read list up to MaxFetch reads;
\* --min_reads (default 10) is scaled down to 0..MaxMinReads so that a few reads
\* are sufficient coverage, and 0 makes a site without reads sufficient
Init ==
    /\ sfh \in {<<l>> : l \in StoredLines}
    /\ bam = <<"a.bam", "b.bam">>
    /\ fetchable = "reads"
    /\ MIN_READS_AT_SNP \in 0..MaxMinReads
    /\ InitState

\* up to MaxSites lines, one alignment file, one pool per classification branch
InitSites ==
    /\ sfh \in {f \in SeqsUpTo(SnvLines, MaxSites) : Len(f) > 0}
    /\ bam = <<"a.bam">>
    /\ fetchable = "pools"
    /\ MIN_READS_AT_SNP \in 0..MaxMinReads
    /\ InitState

Next ==
    \/ ReadSnpLine
    \/ CloseSnpFile
    \/ FetchReads
    \/ CloseBam
    \/ CheckMinReads
    \/ ClassifySite
    \/ CollectValidTests
    \/ PerformFDR
    \/ SortKeys
    \/ PrintLine
    \/ Exit

Spec == Init /\ [][Next]_vars

SpecSites == InitSites /\ [][Next]_vars

\* ------------------------------------------------------------------------
\* Properties
\* ------------------------------------------------------------------------
Pos(keys, k) == CHOOSE i \in 1..Len(keys) : keys[i] = k

\* the loop body of stage 3 has run to its end for the site
Finished(s) == "report" \in s.fields /\ (s.flag_sufficient_reads => "reads" \notin s.fields)

\* stage 6.1 has run to its end
PoolBuilt == pc \in {"stage6_2", "stage7", "print", "done"}
             \/ (pc = "aborted" /\ error = "ZeroDivisionError")

InPool(k) == k \in DOMAIN valid_tests_dict

Observed(s, b) == HasBase(s.allelic_dict, b)

\* C1: stages 4 to 6 run to completion for every list of sites and every pool
\* of reads: no site edge case raises an error that aborts the run, and at the
\* end every site has its report line after the summary line
C1_NoSiteAbortsRun ==
    /\ ~(pc = "aborted" /\ error = "KeyError")
    /\ pc = "done" => Len(stdout) = Len(snp_keys) + 1

QualityTags == {"Insufficient_Total_Reads;", "No_Ref_Reads;", "Only_Alt_Reads;",
                "No_Ref_nor_Alt_Reads;", "Insufficient_Alleles;", "No_Alt_Reads;"}

\* C2: every site in the FDR pool has sufficient coverage, an empty quality
\* comment, an alternate count > 0 and a numeric alternate p-value; a site
\* carrying any quality tag is never in the pool, so it gets no q-value
C2_PoolIsClean ==
    /\ \A k \in DOMAIN valid_tests_dict :
          LET s == snp_dict[k]
          IN /\ s.flag_sufficient_reads
             /\ s.report_comment = ""
             /\ Observed(s, s.alt)
             /\ Entry(s.allelic_dict, s.alt).count > 0
             /\ valid_tests_dict[k].pvalue = Entry(s.allelic_dict, s.alt).pvalue
             /\ Len(valid_tests_dict[k].pvalue) = 2
             /\ valid_tests_dict[k].pvalue[1] \in 1..valid_tests_dict[k].pvalue[2]
    /\ \A k \in DOMAIN snp_dict :
          (\E t \in QualityTags : Contains(snp_dict[k].report_comment, t)) => ~InPool(k)

\* a pool with q-values next to a tagged site with alternate reads
C2_Witness ==
    /\ pc = "stage7"
    /\ \E k \in DOMAIN snp_dict : InPool(k) /\ valid_tests_dict[k].qvalue # <<>>
    /\ \E k \in DOMAIN snp_dict :
          /\ ~InPool(k)
          /\ Observed(snp_dict[k], snp_dict[k].alt)
          /\ Contains(snp_dict[k].report_comment, "No_Ref_Reads;")

\* C3: once the classification of a site has finished, whatever branch it
\* took, report_ref and report_alt are both non-empty strings
C3_ReportsPopulated ==
    \A k \in DOMAIN snp_dict :
        Finished(snp_dict[k]) => Len(snp_dict[k].report_ref) > 0 /\ Len(snp_dict[k].report_alt) > 0

\* a tested site without alternate reads: only the last step writes report_alt
C3_Witness ==
    \E k \in DOMAIN snp_dict :
        /\ Finished(snp_dict[k])
        /\ snp_dict[k].flag_sufficient_reads
        /\ Len(snp_dict[k].allelic_dict) >= 2
        /\ ~Observed(snp_dict[k], snp_dict[k].alt)

\* a finished site with sufficient reads that all show the reference base
OnlyRefObserved(s) ==
    /\ Finished(s)
    /\ s.flag_sufficient_reads
    /\ Len(s.allelic_dict) = 1
    /\ s.allelic_dict[1].base = s.ref

\* C4 as stated: where only the reference base is observed no base gets a
\* p-value and the final quality comment is "Insufficient_Alleles;"
C4_Original ==
    \A k \in DOMAIN snp_dict :
        OnlyRefObserved(snp_dict[k]) =>
            /\ snp_dict[k].allelic_dict[1].pvalue = <<>>
            /\ snp_dict[k].report_comment = "Insufficient_Alleles;"

\* C4 amended: where only the reference base is observed the single-allele
\* guard fires, no base gets a p-value, and the final quality comment is
\* "Insufficient_Alleles;No_Alt_Reads;"
C4_RefOnlySite ==
    \A k \in DOMAIN snp_dict :
        OnlyRefObserved(snp_dict[k]) =>
            /\ snp_dict[k].allelic_dict[1].pvalue = <<>>
            /\ snp_dict[k].report_ref = ".:."
            /\ snp_dict[k].report_comment = "Insufficient_Alleles;No_Alt_Reads;"

C4_Witness == \E k \in DOMAIN snp_dict : OnlyRefObserved(snp_dict[k])

\* a finished site with sufficient reads, no reference read and a third base
ThirdBaseNoRef(s) ==
    /\ Finished(s)
    /\ s.flag_sufficient_reads
    /\ ~Observed(s, s.ref)
    /\ \E i \in 1..Len(s.allelic_dict) : s.allelic_dict[i].base \notin {s.ref, s.alt}

CalcRelTo(b) == "No_Ref_Reads;Calc_rel_to_" \o b \o ";"

\* C5 as stated: without reference reads and with a third base observed, the
\* final comment contains "No_Ref_Reads;Calc_rel_to_<that base>;" and the site
\* is not in the FDR pool
C5_Original ==
    \A k \in DOMAIN snp_dict :
        ThirdBaseNoRef(snp_dict[k]) =>
            /\ \E i \in 1..Len(snp_dict[k].allelic_dict) :
                  /\ snp_dict[k].allelic_dict[i].base \notin {snp_dict[k].ref, snp_dict[k].alt}
                  /\ Contains(snp_dict[k].report_comment, CalcRelTo(snp_dict[k].allelic_dict[i].base))
            /\ ~InPool(k)

\* C5 amended: such a site is never in the FDR pool; if at least two distinct
\* bases are observed the substitute is a base other than the alternate with
\* the largest count and the comment contains its tag; if all reads show one
\* third base the single-allele guard replaces the comment, which ends as
\* "Insufficient_Alleles;No_Alt_Reads;"
C5_SubstituteAnchor ==
    \A k \in DOMAIN snp_dict :
        LET s == snp_dict[k]
            d == s.allelic_dict
        IN ThirdBaseNoRef(s) =>
            /\ ~InPool(k)
            /\ IF Len(d) >= 2
               THEN \E i \in 1..Len(d) :
                       /\ d[i].base # s.alt
                       /\ \A j \in 1..Len(d) : d[j].base # s.alt => d[j].count <= d[i].count
                       /\ Contains(s.report_comment, CalcRelTo(d[i].base))
                       /\ s.report_ref = s.ref \o ":0;" \o d[i].base \o ":" \o ToString(d[i].count)
               ELSE s.report_comment = "Insufficient_Alleles;No_Alt_Reads;"

\* a substituted anchor next to alternate reads that outnumber it, pool built
C5_Witness ==
    /\ PoolBuilt
    /\ \E k \in DOMAIN snp_dict :
          /\ ThirdBaseNoRef(snp_dict[k])
          /\ Observed(snp_dict[k], snp_dict[k].alt)
          /\ \E i \in 1..Len(snp_dict[k].allelic_dict) :
                /\ snp_dict[k].allelic_dict[i].base \notin {snp_dict[k].ref, snp_dict[k].alt}
                /\ snp_dict[k].allelic_dict[i].count
                     < Entry(snp_dict[k].allelic_dict, snp_dict[k].alt).count

\* what C6 compares of the classification of a site
Outcome(c) ==
    <<{<<c.site.allelic_dict[i].base, c.site.allelic_dict[i].count>> :
          i \in 1..Len(c.site.allelic_dict)},
      c.base, c.site.report_ref, c.site.report_alt, c.site.report_other,
      c.site.report_comment, c.error, OutputLine(c.site, c.site.id, <<>>)>>

Reordered(reads, f) == [i \in 1..Len(reads) |-> reads[f[i]]]

\* C6: the result for a site does not depend on the order of the pooled reads:
\* every permutation of the reads of the site about to be classified gives the
\* same allele counts, anchor base, report strings, comment and output line
C6_OrderIndependent ==
    (pc = "stage3" /\ key_i <= Len(snp_keys)) =>
        LET s == snp_dict[snp_keys[key_i]]
        IN \A f \in Permutations(1..Len(s.reads)) :
              Outcome(Classify([s EXCEPT !.reads = Reordered(s.reads, f)])) = Outcome(Classify(s))

Sorted == pc \in {"print", "done"}

\* C7 as stated: FDR-eligible sites come first in ascending order of p-value,
\* all ineligible sites after them, in input order among themselves
C7_Original ==
    Sorted =>
        \A i, j \in 1..Len(sorted_keys) :
            i < j =>
                LET a == sorted_keys[i]
                    b == sorted_keys[j]
                IN /\ (InPool(a) /\ InPool(b)) =>
                         ~FloatLess(valid_tests_dict[b].pvalue, valid_tests_dict[a].pvalue)
                   /\ ~InPool(a) => ~InPool(b)
                   /\ (~InPool(a) /\ ~InPool(b)) => Pos(snp_keys, a) < Pos(snp_keys, b)

C7_Value(k) == IF InPool(k) THEN valid_tests_dict[k].pvalue ELSE <<1, 1>>

\* C7 amended: the output order holds every site once, ascending by sort value
\* (the p-value of an eligible site, 1 for an ineligible one); sites with equal
\* sort values, an eligible site with p-value 1 included, are in ascending
\* order of site id
C7_SortedByValueThenId ==
    Sorted =>
        /\ Len(sorted_keys) = Len(snp_keys)
        /\ {sorted_keys[i] : i \in 1..Len(sorted_keys)} = DOMAIN snp_dict
        /\ \A i, j \in 1..Len(sorted_keys) :
              i < j =>
                  LET a == sorted_keys[i]
                      b == sorted_keys[j]
                  IN \/ FloatLess(C7_Value(a), C7_Value(b))
                     \/ (C7_Value(a) = C7_Value(b) /\ StrLess(a, b))

\* an eligible site with p-value 1 printed after an ineligible site that came
\* later in the input
C7_Witness ==
    /\ Sorted
    /\ \E i, j \in 1..Len(sorted_keys) :
          /\ i < j
          /\ ~InPool(sorted_keys[i])
          /\ InPool(sorted_keys[j])
          /\ valid_tests_dict[sorted_keys[j]].pvalue = <<1, 1>>
          /\ Pos(snp_keys, sorted_keys[j]) < Pos(snp_keys, sorted_keys[i])

\* C8: every site admitted to snp_dict has a reference allele and an alternate
\* allele of length exactly 1
C8_OnlySnvsAdmitted ==
    \A k \in DOMAIN snp_dict : Len(snp_dict[k].ref) = 1 /\ Len(snp_dict[k].alt) = 1

\* a finished site with sufficient reads, reference and alternate both observed
RefAndAltObserved(s) ==
    /\ Finished(s)
    /\ s.flag_sufficient_reads
    /\ Observed(s, s.ref)
    /\ Observed(s, s.alt)

\* C9: where reference and alternate base are both observed the anchor is the
\* reference base with its count, every other observed base has the p-value of
\* the binomial test of its count against its count plus the anchor count, the
\* anchor has none, report_alt is "<alt>:<count>:<pvalue>", the comment is
\* empty, and the site is in the FDR pool once the pool is built
C9_TestedAgainstReference ==
    \A k \in DOMAIN snp_dict :
        LET s == snp_dict[k]
            d == s.allelic_dict
            n_ref == Entry(d, s.ref).count
        IN RefAndAltObserved(s) =>
            /\ s.report_ref = s.ref \o ":" \o ToString(n_ref)
            /\ \A i \in 1..Len(d) :
                  d[i].pvalue = IF d[i].base = s.ref THEN <<>>
                                ELSE binom_test(d[i].count, d[i].count + n_ref)
            /\ s.report_alt = s.alt \o ":" \o ToString(Entry(d, s.alt).count) \o ":"
                              \o FloatStr(Entry(d, s.alt).pvalue)
            /\ s.report_comment = ""
            /\ PoolBuilt => (InPool(k) /\ valid_tests_dict[k].pvalue = Entry(d, s.alt).pvalue)

\* the pool holds a site with an alternate p-value below 1
C9_Witness ==
    /\ PoolBuilt
    /\ \E k \in DOMAIN snp_dict :
          /\ RefAndAltObserved(snp_dict[k])
          /\ InPool(k)
          /\ FloatLess(valid_tests_dict[k].pvalue, <<1, 1>>)

NotQueriedTags == QualityTags \ {"No_Ref_Reads;"}

\* C10: not_queried_count grows by at most one per site: while sites are
\* classified it is between 0 and the number of sites classified so far, and
\* the queried count of the summary line is not negative and is the number of
\* sites without a not-queried tag
C10_NotQueriedOncePerSite ==
    /\ pc = "stage3" => (0 <= not_queried_count /\ not_queried_count <= key_i - 1)
    /\ pc \in {"stage7", "print", "done"} =>
          /\ queried_count >= 0
          /\ queried_count = Cardinality({k \in DOMAIN snp_dict :
                                 \A t \in NotQueriedTags : ~Contains(snp_dict[k].report_comment, t)})
====
